---- MODULE Spec2Model ----
(***************************************************************************)
(* Model of scripts/setup-periphery.py: the installer of the Komodo        *)
(* Periphery agent as a systemd service.  One run of main() is a sequence  *)
(* of steps over the host state (files, directories, the supervisor); the  *)
(* commands started with os.popen and never read or waited for (stop,      *)
(* chmod, daemon-reload) are child processes that finish at any later      *)
(* time.                                                                   *)
(***************************************************************************)
EXTENDS Integers, Sequences, FiniteSets, TLC

VARIABLES
    pc,        \* position of the run inside main()
    args,      \* the parsed command line of the current (or last) run
    env,       \* environment of the run: HOME and the machine type of the host
    fs,        \* the files of the host: path -> [present, data]
    dirs,      \* the directories that exist, among those the installer uses
    xbit,      \* the binary paths whose file has the executable bit
    systemd,   \* systemctl is installed and systemd is the init system
    running,   \* the binary paths a periphery service is running from
    pending,   \* child processes started by os.popen that have not finished
    buf,       \* text written to the open unit file and not yet flushed
    runs,      \* number of runs started so far
    start,     \* the files and directories as they were when the run began
    fetched,   \* what the network served to this run: binary and template
    h,         \* observations of the current run (history)
    prev       \* the previous run, when this run repeats it with the same inputs

vars == <<pc, args, env, fs, dirs, xbit, systemd, running, pending, buf, runs,
          start, fetched, h, prev>>

\* ------------------------------------------------------------------ bounds

\* Number of installer runs in one behaviour.
MaxRuns == 2

\* ------------------------------------------------------------ input domains

None == "None"

\* Values of $HOME.
Homes == {"/home/a", "/root"}

\* Values of platform.machine(), as their characters.
Machines ==
    {<<"x", "8", "6", "_", "6", "4">>, <<"A", "M", "D", "6", "4">>,
     <<"a", "a", "r", "c", "h", "6", "4">>, <<"a", "r", "m", "6", "4">>,
     <<"A", "R", "M", "6", "4">>, <<"a", "r", "m", "v", "7", "l">>,
     <<"r", "i", "s", "c", "v", "6", "4">>, <<>>}

\* --version: a release tag.  --binary-url: the default, or a mirror.
Versions == {"v2.0.0", "v1.19.5"}
DefaultBinaryUrl == "https://github.com/moghtech/komodo/releases/download"
BinaryUrls == {DefaultBinaryUrl, "https://mirror.example/komodo"}

\* --root-directory: the argparse default, or a supplied value.
DefaultRootDirectory == "/etc/komodo"
RootDirectories == {DefaultRootDirectory, "/srv/komodo"}

\* --core-address and --onboarding-key default to None.
CoreAddresses == {None, "https://core.example"}
OnboardingKeys == {None, "K123"}

\* --connect-as defaults to the host name.
NodeName == "host1"
ConnectAs == {NodeName, "edge7"}

Args ==
    [version : Versions, user : BOOLEAN, force_service_file : BOOLEAN,
     root_directory : RootDirectories, core_address : CoreAddresses,
     connect_as : ConnectAs, onboarding_key : OnboardingKeys,
     binary_url : BinaryUrls]

\* ------------------------------------------------------------------- paths

\* Mutant: the config and unit directories of the user profile are swapped.
load_paths_swapped(a, e) ==
    IF a.user
    THEN <<e.HOME, e.HOME \o "/.local/bin", e.HOME \o "/.config/systemd/user",
           e.HOME \o "/.config/komodo">>
    ELSE <<e.HOME, "/usr/local/bin", "/etc/komodo", "/etc/systemd/system">>

load_paths(a, e) ==
    IF a.user
    THEN <<e.HOME, e.HOME \o "/.local/bin", e.HOME \o "/.config/komodo",
           e.HOME \o "/.config/systemd/user">>
    ELSE <<e.HOME, "/usr/local/bin", "/etc/komodo", "/etc/systemd/system">>

home_dir(a, e) == load_paths(a, e)[1]
bin_dir(a, e) == load_paths(a, e)[2]
config_dir(a, e) == load_paths(a, e)[3]
service_dir(a, e) == load_paths(a, e)[4]

bin_path(a, e) == bin_dir(a, e) \o "/periphery"
config_file(a, e) == config_dir(a, e) \o "/periphery.config.toml"
service_file(a, e) == service_dir(a, e) \o "/periphery.service"

Envs == [HOME : Homes, machine : Machines]

BinPaths == {bin_path([user |-> u], e) : u \in BOOLEAN, e \in Envs}
ConfigPaths == {config_file([user |-> u], e) : u \in BOOLEAN, e \in Envs}
ServicePaths == {service_file([user |-> u], e) : u \in BOOLEAN, e \in Envs}
Paths == BinPaths \cup ConfigPaths \cup ServicePaths
Dirs ==
    {load_paths([user |-> u], e)[i] : u \in BOOLEAN, e \in Envs, i \in 2..4}

\* ------------------------------------------------------------------- files

Absent == [present |-> FALSE, data |-> <<>>]
File(d) == [present |-> TRUE, data |-> d]

isfile(f, p) == f[p].present
isdir(d, p) == p \in d

\* os.makedirs behind "if not os.path.isdir(...)".
ensure_dir(d, p) == IF isdir(d, p) THEN d ELSE d \cup {p}

\* os.remove
remove(f, p) == [f EXCEPT ![p] = Absent]

\* ---------------------------------------------------------------- binaries

\* A binary is a sequence of chunks; the release serves NewBinary.
OldBinary == <<"ELF", "v1">>
NewBinary == <<"ELF", "v2">>

\* str.lower on the characters of a string.
LowerChar(c) ==
    CASE c = "A" -> "a" [] c = "B" -> "b" [] c = "C" -> "c" [] c = "D" -> "d"
      [] c = "E" -> "e" [] c = "F" -> "f" [] c = "G" -> "g" [] c = "H" -> "h"
      [] c = "I" -> "i" [] c = "J" -> "j" [] c = "K" -> "k" [] c = "L" -> "l"
      [] c = "M" -> "m" [] c = "N" -> "n" [] c = "O" -> "o" [] c = "P" -> "p"
      [] c = "Q" -> "q" [] c = "R" -> "r" [] c = "S" -> "s" [] c = "T" -> "t"
      [] c = "U" -> "u" [] c = "V" -> "v" [] c = "W" -> "w" [] c = "X" -> "x"
      [] c = "Y" -> "y" [] c = "Z" -> "z" [] OTHER -> c
lower(str) == [i \in 1..Len(str) |-> LowerChar(str[i])]

\* Mutant: the machine type is compared without .lower().
periphery_bin_no_lower(e) ==
    IF e.machine = <<"a", "a", "r", "c", "h", "6", "4">> \/ e.machine = <<"a", "r", "m", "6", "4">>
    THEN "periphery-aarch64"
    ELSE "periphery-x86_64"

\* periphery_bin: "periphery-aarch64" when the lower-cased machine type is
\* "aarch64" or "arm64", else "periphery-x86_64".
periphery_bin(e) ==
    LET arch == lower(e.machine) IN
    IF arch = <<"a", "a", "r", "c", "h", "6", "4">> \/ arch = <<"a", "r", "m", "6", "4">>
    THEN "periphery-aarch64"
    ELSE "periphery-x86_64"

\* The URL given to curl: {args.binary_url}/{args.version}/{periphery_bin}
binary_locator(a, e) == a.binary_url \o "/" \o a.version \o "/" \o periphery_bin(e)

\* Outcomes of "curl -sSL <url> > bin_path": the shell creates or truncates
\* the file, then curl writes what it received before it ended: all of the
\* binary, or the part that arrived before the transfer broke off.
Downloads == {"ok", "partial"}
Received(outcome) ==
    IF outcome = "ok" THEN NewBinary ELSE SubSeq(NewBinary, 1, Len(NewBinary) - 1)

\* ------------------------------------------------------------------ config

\* A line of the template is a sequence of atoms (words, blanks, "=", "#",
\* quoted values); str.startswith is a prefix test on the atoms.
startswith(line, prefix) ==
    /\ Len(line) >= Len(prefix)
    /\ SubSeq(line, 1, Len(prefix)) = prefix

Quoted(v) == "\"" \o v \o "\""
Directive(key, v) == <<key, " ", "=", " ", Quoted(v)>>

RootPrefix == <<"root_directory", " ", "=">>
CorePrefix == <<"#", " ", "core_address", " ", "=">>
ConnectPrefix == <<"#", " ", "connect_as", " ", "=">>
KeyPrefix == <<"#", " ", "onboarding_key", " ", "=">>

map_config_line(a, home, line) ==
    IF startswith(line, RootPrefix) /\ a.root_directory # None
    THEN Directive("root_directory", a.root_directory)
    ELSE IF startswith(line, RootPrefix) /\ a.user
    THEN Directive("root_directory", home \o "/komodo")
    ELSE IF startswith(line, CorePrefix) /\ a.core_address # None
    THEN Directive("core_address", a.core_address)
    ELSE IF startswith(line, ConnectPrefix)
    THEN Directive("connect_as", a.connect_as)
    ELSE IF startswith(line, KeyPrefix) /\ a.onboarding_key # None
    THEN Directive("onboarding_key", a.onboarding_key)
    ELSE line

\* Mutant: blank lines of the template are dropped.
render_drop_blank(a, home, template) ==
    LET kept == SelectSeq(template, LAMBDA l : l # <<>>) IN
    [i \in 1..Len(kept) |-> map_config_line(a, home, kept[i])]

\* lines = [map_config_line(args, home_dir, line) for line in template]
render(a, home, template) ==
    [i \in 1..Len(template) |-> map_config_line(a, home, template[i])]

\* Templates the config URL may serve.
RootLine == <<"root_directory", " ", "=", " ", Quoted("/opt/komodo"), " ", "#", " ", "data">>
CoreLine == <<"#", " ", "core_address", " ", "=", " ", Quoted("")>>
ConnectLine == <<"#", " ", "connect_as", " ", "=", " ", Quoted("")>>
KeyLine == <<"#", " ", "onboarding_key", " ", "=", " ", Quoted("")>>
FullTemplate == <<RootLine, CoreLine, ConnectLine, KeyLine, <<"port", " ", "=", " ", "8120">>>>
StockTemplate ==
    <<Directive("root_directory", DefaultRootDirectory), <<"#", "core_address", " ", "=">>,
      ConnectLine>>
OddTemplate ==
    <<<<>>, ConnectLine, <<"root_directory", "=", Quoted("/x")>>, ConnectLine,
      <<"root_directory", " ", "=">>, <<" ", "#", " ", "onboarding_key", " ", "=">>>>
Templates == {FullTemplate, StockTemplate, OddTemplate}

\* The template the config URL serves to the runs of the state machine.
ServedTemplates == {FullTemplate}

\* A config file the operator edited by hand.
EditedConfig == <<<<"edited", " ", "=", " ", "true">>>>

\* -------------------------------------------------------------------- unit

\* Mutant: ExecStart names the system-wide config, whatever the mode.
unit_text_system_config(home, bdir, cdir) ==
    <<"[Unit]",
      "Description=Agent to connect with Komodo Core",
      "",
      "[Service]",
      "Environment=\"HOME=" \o home \o "\"",
      "ExecStart=/bin/sh -lc \"" \o bdir \o "/periphery --config-path "
          \o "/etc/komodo/periphery.config.toml\"",
      "Restart=on-failure",
      "TimeoutStartSec=0",
      "",
      "[Install]",
      "WantedBy=default.target">>

\* The text written by write_service_file, as its lines.
unit_text(home, bdir, cdir) ==
    <<"[Unit]",
      "Description=Agent to connect with Komodo Core",
      "",
      "[Service]",
      "Environment=\"HOME=" \o home \o "\"",
      "ExecStart=/bin/sh -lc \"" \o bdir \o "/periphery --config-path "
          \o cdir \o "/periphery.config.toml\"",
      "Restart=on-failure",
      "TimeoutStartSec=0",
      "",
      "[Install]",
      "WantedBy=default.target">>

\* A unit file written by hand (or by an earlier installer).
SentinelUnit == <<"[Unit]", "Description=SENTINEL">>

\* ----------------------------------------------------------------- history

H0 ==
    [log |-> <<>>,                 \* the side effects of the run, in program order
     paths |-> <<>>,               \* [home_dir, bin_dir, config_dir, service_dir]
     failed |-> FALSE,             \* a systemctl command of the run has failed
     removedWhileRunning |-> FALSE,\* the old binary was deleted under a running service
     fileAtCurl |-> FALSE,         \* a file was at bin_path when the download began
     unitAtReload |-> <<>>,        \* the unit file on disk when daemon-reload was started
     reloadPendingAtStart |-> FALSE,
     chmodPendingAtStart |-> FALSE]

NoFetch == [bin |-> "none", url |-> "", tmpl |-> "none", template |-> <<>>]
NoPrev == [valid |-> FALSE, fetched |-> NoFetch, fs |-> [p \in Paths |-> Absent],
           log |-> <<>>]

Logged(ev) == [h EXCEPT !.log = Append(@, ev)]
Has(log, ev) == \E i \in 1..Len(log) : log[i] = ev
Count(log, ev) == Cardinality({i \in 1..Len(log) : log[i] = ev})
Pos(log, ev) == CHOOSE i \in 1..Len(log) : log[i] = ev

\* -------------------------------------------------------------------- Init

\* The directory that holds a file of the installer.
Parent(p) ==
    CHOOSE d \in Dirs : \E u \in BOOLEAN, e \in Envs :
        LET a == [user |-> u] IN
        \/ p = bin_path(a, e) /\ d = bin_dir(a, e)
        \/ p = config_file(a, e) /\ d = config_dir(a, e)
        \/ p = service_file(a, e) /\ d = service_dir(a, e)

\* The environment in which the host was set up before the first run.
HostEnvs == {e \in Envs : e.HOME = "/home/a" /\ e.machine = <<"x", "8", "6", "_", "6", "4">>}

\* The files of one scope: the binary, the config and the unit of a mode.
ScopeFiles(u, e) ==
    LET a == [user |-> u] IN {bin_path(a, e), config_file(a, e), service_file(a, e)}

\* A host before the first run: the files of at most one scope are already
\* there, any of them (an earlier install, a hand-written config or unit),
\* each in its directory; the service runs only where systemd, a binary and a
\* unit exist.
InitHost ==
    /\ systemd \in BOOLEAN
    /\ \E u \in BOOLEAN, e \in HostEnvs : \E F \in SUBSET ScopeFiles(u, e) :
        /\ fs = [p \in Paths |->
                    IF p \notin F THEN Absent
                    ELSE IF p \in BinPaths THEN File(OldBinary)
                    ELSE IF p \in ConfigPaths THEN File(EditedConfig)
                    ELSE File(SentinelUnit)]
        /\ xbit = F \cap BinPaths
        /\ dirs = {Parent(p) : p \in F}
        /\ \/ running = {}
           \/ /\ systemd /\ F = ScopeFiles(u, e)
              /\ running = F \cap BinPaths

Init ==
    /\ InitHost
    /\ pc = "idle"
    /\ args = CHOOSE a \in Args : TRUE
    /\ env = CHOOSE e \in HostEnvs : TRUE
    /\ pending = {}
    /\ buf = <<>>
    /\ runs = 0
    /\ start = [fs |-> fs, dirs |-> dirs]
    /\ fetched = NoFetch
    /\ h = H0
    /\ prev = NoPrev

\* -------------------------------------------------------------------- main

Ended == pc \in {"idle", "done", "exit1", "crashed"}

\* The command lines of the runs of the state machine: both modes, with and
\* without --force-service-file, with --connect-as alone and with every
\* override given.
RunArgs ==
    {a \in Args :
        /\ a.version = "v2.0.0" /\ a.binary_url = DefaultBinaryUrl
        /\ \/ /\ a.root_directory = DefaultRootDirectory /\ a.core_address = None
              /\ a.onboarding_key = None /\ a.connect_as # NodeName
           \/ /\ a.root_directory # DefaultRootDirectory /\ a.core_address # None
              /\ a.onboarding_key # None /\ a.connect_as # NodeName}

\* The environment of the runs of the state machine.
RunEnvs == HostEnvs

\* main() begins: parse_args().  The default of --version is looked up on the
\* network while the parser is built; when the lookup raises, the run ends in
\* a traceback before anything else happens.
parse_args(a, e, lookup_ok) ==
    /\ Ended /\ runs < MaxRuns /\ pending = {}
    /\ args' = a /\ env' = e
    /\ runs' = runs + 1
    /\ start' = [fs |-> fs, dirs |-> dirs]
    /\ fetched' = NoFetch /\ h' = H0 /\ prev' = NoPrev /\ buf' = <<>>
    /\ pc' = IF lookup_ok THEN "uses_systemd" ELSE "crashed"
    /\ UNCHANGED <<fs, dirs, xbit, systemd, running, pending>>

\* main() is run again after a complete run, with the same command line and
\* environment, the network serving what it served before.
main_again ==
    /\ pc = "done" /\ runs < MaxRuns /\ pending = {}
    /\ runs' = runs + 1
    /\ start' = [fs |-> fs, dirs |-> dirs]
    /\ prev' = [valid |-> TRUE, fetched |-> fetched, fs |-> fs, log |-> h.log]
    /\ fetched' = NoFetch /\ h' = H0 /\ buf' = <<>>
    /\ pc' = "uses_systemd"
    /\ UNCHANGED <<args, env, fs, dirs, xbit, systemd, running, pending>>

\* Mutant: the check of systemd is left out.
uses_systemd_unchecked == TRUE

uses_systemd == systemd

\* if not uses_systemd(): sys.exit(1)
preflight ==
    /\ pc = "uses_systemd"
    /\ pc' = IF uses_systemd THEN "load_paths" ELSE "exit1"
    /\ UNCHANGED <<args, env, fs, dirs, xbit, systemd, running, pending, buf, runs,
                   start, fetched, h, prev>>

\* Mutant: the call of download_binary is missing.
resolve_paths_skip_download ==
    /\ pc = "load_paths"
    /\ h' = [h EXCEPT !.paths = load_paths(args, env)]
    /\ pc' = "write_config"
    /\ UNCHANGED <<args, env, fs, dirs, xbit, systemd, running, pending, buf, runs,
                   start, fetched, prev>>

\* [home_dir, bin_dir, config_dir, service_dir] = load_paths(args), and the prints
resolve_paths ==
    /\ pc = "load_paths"
    /\ h' = [h EXCEPT !.paths = load_paths(args, env)]
    /\ pc' = "stop"
    /\ UNCHANGED <<args, env, fs, dirs, xbit, systemd, running, pending, buf, runs,
                   start, fetched, prev>>

\* ---------------------------------------------------------- download_binary

\* os.popen("systemctl stop periphery"): started, neither read nor waited for
popen_stop ==
    /\ pc = "stop"
    /\ pending' = pending \cup {"stop"}
    /\ h' = Logged("stop")
    /\ pc' = "makedirs_bin"
    /\ UNCHANGED <<args, env, fs, dirs, xbit, systemd, running, buf, runs, start,
                   fetched, prev>>

makedirs_bin ==
    /\ pc = "makedirs_bin"
    /\ dirs' = ensure_dir(dirs, bin_dir(args, env))
    /\ h' = IF isdir(dirs, bin_dir(args, env)) THEN h ELSE Logged("makedirs")
    /\ pc' = "remove_bin"
    /\ UNCHANGED <<args, env, fs, xbit, systemd, running, pending, buf, runs, start,
                   fetched, prev>>

\* if os.path.isfile(bin_path): os.remove(bin_path)
remove_bin ==
    /\ pc = "remove_bin"
    /\ LET bp == bin_path(args, env) IN
        IF isfile(fs, bp)
        THEN /\ fs' = remove(fs, bp)
             /\ xbit' = xbit \ {bp}
             /\ h' = [Logged("rm_bin") EXCEPT !.removedWhileRunning = bp \in running]
        ELSE UNCHANGED <<fs, xbit, h>>
    /\ pc' = "curl"
    /\ UNCHANGED <<args, env, dirs, systemd, running, pending, buf, runs, start,
                   fetched, prev>>

\* "> bin_path": the shell creates the file, or truncates the one there, and
\* the command's output becomes its content.
redirect(f, p, d) == [f EXCEPT ![p] = File(d)]

\* print(os.popen("curl -sSL <url> > bin_path").read()): waited for through
\* read(); the exit status of curl is not looked at.
curl(outcome) ==
    /\ pc = "curl"
    /\ prev.valid => outcome = prev.fetched.bin
    /\ LET bp == bin_path(args, env) IN
        /\ fs' = redirect(fs, bp, Received(outcome))
        /\ xbit' = IF isfile(fs, bp) THEN xbit ELSE xbit \ {bp}
        /\ h' = [Logged("write_bin") EXCEPT !.fileAtCurl = isfile(fs, bp)]
    /\ fetched' = [fetched EXCEPT !.bin = outcome, !.url = binary_locator(args, env)]
    /\ pc' = "chmod"
    /\ UNCHANGED <<args, env, dirs, systemd, running, pending, buf, runs, start, prev>>

\* os.popen("chmod +x bin_path"): started, neither read nor waited for
popen_chmod ==
    /\ pc = "chmod"
    /\ pending' = pending \cup {"chmod"}
    /\ h' = Logged("chmod")
    /\ pc' = "write_config"
    /\ UNCHANGED <<args, env, fs, dirs, xbit, systemd, running, buf, runs, start,
                   fetched, prev>>

\* ------------------------------------------------------------- write_config

\* the early return: if os.path.isfile(config_file)
config_exists(f, a, e) == isfile(f, config_file(a, e))

\* Mutant: the early return is missing after the "already exists" message.
write_config_no_return ==
    /\ pc = "write_config"
    /\ dirs' = ensure_dir(dirs, config_dir(args, env))
    /\ h' = IF isdir(dirs, config_dir(args, env)) THEN h ELSE Logged("makedirs")
    /\ pc' = "fetch_template"
    /\ UNCHANGED <<args, env, fs, xbit, systemd, running, pending, buf, runs, start,
                   fetched, prev>>

\* write_config up to the fetch: return when the file exists, else make sure
\* of the directory.
write_config ==
    /\ pc = "write_config"
    /\ IF config_exists(fs, args, env)
       THEN /\ pc' = "write_service_file"
            /\ UNCHANGED <<dirs, h>>
       ELSE /\ dirs' = ensure_dir(dirs, config_dir(args, env))
            /\ h' = IF isdir(dirs, config_dir(args, env)) THEN h ELSE Logged("makedirs")
            /\ pc' = "fetch_template"
    /\ UNCHANGED <<args, env, fs, xbit, systemd, running, pending, buf, runs, start,
                   fetched, prev>>

\* Mutant: the config file is opened for writing before the template is
\* fetched.
fetch_template_open_first(t, ok) ==
    /\ pc = "fetch_template"
    /\ prev.valid /\ prev.fetched.tmpl = "ok" => ok /\ t = prev.fetched.template
    /\ IF ok
       THEN /\ fs' = [fs EXCEPT ![config_file(args, env)] =
                          File(render(args, home_dir(args, env), t))]
            /\ fetched' = [fetched EXCEPT !.tmpl = "ok", !.template = t]
            /\ h' = Logged("write_cfg")
            /\ pc' = "write_service_file"
       ELSE /\ fs' = [fs EXCEPT ![config_file(args, env)] = File(<<>>)]
            /\ fetched' = [fetched EXCEPT !.tmpl = "failed"]
            /\ h' = Logged("write_cfg")
            /\ pc' = "crashed"
    /\ UNCHANGED <<args, env, dirs, xbit, systemd, running, pending, buf, runs, start,
                   prev>>

\* urllib.request.urlopen(args.config_url) raises when the fetch fails: nothing
\* catches it and the run ends in a traceback.  Otherwise the template is
\* split into lines, mapped, joined and written with open(config_file, "w").
fetch_template(t, ok) ==
    /\ pc = "fetch_template"
    /\ prev.valid /\ prev.fetched.tmpl = "ok" => ok /\ t = prev.fetched.template
    /\ IF ok
       THEN /\ fs' = [fs EXCEPT ![config_file(args, env)] =
                          File(render(args, home_dir(args, env), t))]
            /\ fetched' = [fetched EXCEPT !.tmpl = "ok", !.template = t]
            /\ h' = Logged("write_cfg")
            /\ pc' = "write_service_file"
       ELSE /\ fetched' = [fetched EXCEPT !.tmpl = "failed"]
            /\ pc' = "crashed"
            /\ UNCHANGED <<fs, h>>
    /\ UNCHANGED <<args, env, dirs, xbit, systemd, running, pending, buf, runs, start,
                   prev>>

\* ------------------------------------------------------- write_service_file

\* Mutant: the unit file is recreated whether or not it exists.
unit_skip_never(f, a, e) == FALSE

\* the early return: the file exists and --force-service-file is not set
unit_skip(f, a, e) == isfile(f, service_file(a, e)) /\ ~a.force_service_file

\* Mutant: with --force-service-file the old file is not deleted and the new
\* text is added to it (open(.., "a")).
write_service_file_append ==
    /\ pc = "write_service_file"
    /\ LET sf == service_file(args, env)
           sd == service_dir(args, env)
       IN  IF unit_skip(fs, args, env)
           THEN /\ pc' = "start"
                /\ UNCHANGED <<fs, dirs, buf, h>>
           ELSE /\ fs' = [fs EXCEPT ![sf] = File(fs[sf].data)]
                /\ dirs' = ensure_dir(dirs, sd)
                /\ buf' = fs[sf].data \o unit_text(home_dir(args, env), bin_dir(args, env),
                                                   config_dir(args, env))
                /\ h' = Logged("create_unit")
                /\ pc' = "daemon_reload"
    /\ UNCHANGED <<args, env, xbit, systemd, running, pending, runs, start, fetched,
                   prev>>

\* Mutant: the early return skips the write but not the daemon-reload.
write_service_file_always_reload ==
    /\ pc = "write_service_file"
    /\ LET sf == service_file(args, env)
           sd == service_dir(args, env)
           l1 == IF isfile(fs, sf) THEN Append(h.log, "rm_unit") ELSE h.log
           l2 == IF isdir(dirs, sd) THEN l1 ELSE Append(l1, "makedirs")
       IN  IF unit_skip(fs, args, env)
           THEN /\ pc' = "daemon_reload"
                /\ buf' = fs[sf].data
                /\ UNCHANGED <<fs, dirs, h>>
           ELSE /\ fs' = [fs EXCEPT ![sf] = File(<<>>)]
                /\ dirs' = ensure_dir(dirs, sd)
                /\ buf' = unit_text(home_dir(args, env), bin_dir(args, env),
                                    config_dir(args, env))
                /\ h' = [h EXCEPT !.log = Append(l2, "create_unit")]
                /\ pc' = "daemon_reload"
    /\ UNCHANGED <<args, env, xbit, systemd, running, pending, runs, start, fetched,
                   prev>>

\* Mutant: the early return is missing after the "already exists" message,
\* and the file is opened with "w".
write_service_file_no_return ==
    /\ pc = "write_service_file"
    /\ fs' = [fs EXCEPT ![service_file(args, env)] = File(<<>>)]
    /\ dirs' = ensure_dir(dirs, service_dir(args, env))
    /\ buf' = unit_text(home_dir(args, env), bin_dir(args, env), config_dir(args, env))
    /\ h' = Logged("create_unit")
    /\ pc' = "daemon_reload"
    /\ UNCHANGED <<args, env, xbit, systemd, running, pending, runs, start, fetched,
                   prev>>

\* write_service_file up to f.write: return when the file is kept; else delete
\* it when it exists, make sure of the directory, create it with open(.., "x")
\* and write the text, which stays in the buffer of the file object.
write_service_file ==
    /\ pc = "write_service_file"
    /\ LET sf == service_file(args, env)
           sd == service_dir(args, env)
           l1 == IF isfile(fs, sf) THEN Append(h.log, "rm_unit") ELSE h.log
           l2 == IF isdir(dirs, sd) THEN l1 ELSE Append(l1, "makedirs")
       IN  IF unit_skip(fs, args, env)
           THEN /\ pc' = "start"
                /\ UNCHANGED <<fs, dirs, buf, h>>
           ELSE /\ fs' = [fs EXCEPT ![sf] = File(<<>>)]
                /\ dirs' = ensure_dir(dirs, sd)
                /\ buf' = unit_text(home_dir(args, env), bin_dir(args, env),
                                    config_dir(args, env))
                /\ h' = [h EXCEPT !.log = Append(l2, "create_unit")]
                /\ pc' = "daemon_reload"
    /\ UNCHANGED <<args, env, xbit, systemd, running, pending, runs, start, fetched,
                   prev>>

\* os.popen("systemctl daemon-reload"): started, neither read nor waited for,
\* while f is still open.
popen_reload ==
    /\ pc = "daemon_reload"
    /\ pending' = pending \cup {"reload"}
    /\ h' = [Logged("reload") EXCEPT !.unitAtReload = fs[service_file(args, env)].data]
    /\ pc' = "close_unit"
    /\ UNCHANGED <<args, env, fs, dirs, xbit, systemd, running, buf, runs, start,
                   fetched, prev>>

\* write_service_file returns: f goes out of scope, the file object is
\* finalised and its buffer reaches the file.
close_unit ==
    /\ pc = "close_unit"
    /\ fs' = [fs EXCEPT ![service_file(args, env)] = File(buf)]
    /\ buf' = <<>>
    /\ h' = Logged("flush_unit")
    /\ pc' = "start"
    /\ UNCHANGED <<args, env, dirs, xbit, systemd, running, pending, runs, start,
                   fetched, prev>>

\* ------------------------------------------------------------ start service

\* Mutant: a failed start raises.
start_service_checked(ok) ==
    /\ pc = "start"
    /\ running' = IF ok THEN running \cup {bin_path(args, env)} ELSE running
    /\ h' = [Logged("start") EXCEPT !.reloadPendingAtStart = "reload" \in pending,
                                    !.chmodPendingAtStart = "chmod" \in pending,
                                    !.failed = @ \/ ~ok]
    /\ pc' = IF ok THEN "done" ELSE "crashed"
    /\ UNCHANGED <<args, env, fs, dirs, xbit, systemd, pending, buf, runs, start,
                   fetched, prev>>

\* print(os.popen("systemctl start periphery").read()): waited for through
\* read(); whether the start worked is not looked at.  Then the notes, and
\* main() returns.
start_service(ok) ==
    /\ pc = "start"
    /\ running' = IF ok THEN running \cup {bin_path(args, env)} ELSE running
    /\ h' = [Logged("start") EXCEPT !.reloadPendingAtStart = "reload" \in pending,
                                    !.chmodPendingAtStart = "chmod" \in pending,
                                    !.failed = @ \/ ~ok]
    /\ pc' = "done"
    /\ UNCHANGED <<args, env, fs, dirs, xbit, systemd, pending, buf, runs, start,
                   fetched, prev>>

\* ------------------------------------------------- the unawaited child processes

\* systemctl stop periphery finishes: the service is stopped, or the command
\* fails (no such unit, no permission) and changes nothing.
stop_done(ok) ==
    /\ "stop" \in pending
    /\ pending' = pending \ {"stop"}
    /\ running' = IF ok THEN running \ {bin_path(args, env)} ELSE running
    /\ h' = [h EXCEPT !.failed = @ \/ ~ok]
    /\ UNCHANGED <<pc, args, env, fs, dirs, xbit, systemd, buf, runs, start, fetched,
                   prev>>

\* chmod +x bin_path finishes.
chmod_done ==
    /\ "chmod" \in pending
    /\ pending' = pending \ {"chmod"}
    /\ xbit' = IF isfile(fs, bin_path(args, env))
               THEN xbit \cup {bin_path(args, env)} ELSE xbit
    /\ UNCHANGED <<pc, args, env, fs, dirs, systemd, running, buf, runs, start,
                   fetched, h, prev>>

\* systemctl daemon-reload finishes: the manager has read the unit files, or
\* the command failed.
reload_done(ok) ==
    /\ "reload" \in pending
    /\ pending' = pending \ {"reload"}
    /\ h' = [h EXCEPT !.failed = @ \/ ~ok]
    /\ UNCHANGED <<pc, args, env, fs, dirs, xbit, systemd, running, buf, runs, start,
                   fetched, prev>>

\* ------------------------------------------------------------ specification

Next ==
    \/ \E a \in RunArgs, e \in RunEnvs, ok \in BOOLEAN : parse_args(a, e, ok)
    \/ main_again
    \/ preflight
    \/ resolve_paths
    \/ popen_stop
    \/ makedirs_bin
    \/ remove_bin
    \/ \E o \in Downloads : curl(o)
    \/ popen_chmod
    \/ write_config
    \/ \E t \in ServedTemplates, ok \in BOOLEAN : fetch_template(t, ok)
    \/ write_service_file
    \/ popen_reload
    \/ close_unit
    \/ \E ok \in BOOLEAN : start_service(ok)
    \/ \E ok \in BOOLEAN : stop_done(ok)
    \/ chmod_done
    \/ \E ok \in BOOLEAN : reload_done(ok)

Spec == Init /\ [][Next]_vars

\* ------------------------------------------- one run over the whole input domain

\* A first run on a fresh host, past the preflight check, with any command
\* line and any environment.
InitInputs ==
    /\ args \in Args /\ env \in Envs
    /\ pc = "load_paths"
    /\ systemd = TRUE
    /\ fs = [p \in Paths |-> Absent]
    /\ dirs = {} /\ xbit = {} /\ running = {} /\ pending = {}
    /\ buf = <<>>
    /\ runs = 1
    /\ start = [fs |-> fs, dirs |-> dirs]
    /\ fetched = NoFetch
    /\ h = H0
    /\ prev = NoPrev

\* The run from load_paths to the end of write_config, any template served.
NextInputs ==
    \/ resolve_paths
    \/ popen_stop
    \/ makedirs_bin
    \/ remove_bin
    \/ \E o \in Downloads : curl(o)
    \/ popen_chmod
    \/ write_config
    \/ \E t \in Templates, ok \in BOOLEAN : fetch_template(t, ok)

SpecInputs == InitInputs /\ [][NextInputs]_vars


\* ================================================================== claims

Failed(outcome) == outcome = "partial"
InRun == runs > 0

\* The paths of the current run.
BinFile == bin_path(args, env)
ConfigFile == config_file(args, env)
UnitFile == service_file(args, env)
Composed == unit_text(home_dir(args, env), bin_dir(args, env), config_dir(args, env))

\* C1: a run whose binary download failed halts at BinaryReplaced: it never
\* enters the config step or the unit step, and it writes no config, writes
\* no unit, reloads no definitions and starts no service.
C1_FailedDownloadHalts ==
    Failed(fetched.bin) =>
        /\ pc \in {"chmod", "crashed", "exit1"}
        /\ ~Has(h.log, "write_cfg") /\ ~Has(h.log, "create_unit")
        /\ ~Has(h.log, "reload") /\ ~Has(h.log, "start")

\* C2: a config file that exists when a run begins is byte-identical at every
\* later point of the run, the template is not fetched and no config is
\* written; a run repeated after a complete run keeps the content the first
\* one left.
C2_ConfigNeverOverwritten ==
    /\ InRun /\ start.fs[ConfigFile].present =>
        /\ fs[ConfigFile] = start.fs[ConfigFile]
        /\ fetched.tmpl = "none"
        /\ ~Has(h.log, "write_cfg")
    /\ InRun => \A p \in ConfigPaths : start.fs[p].present => fs[p] = start.fs[p]
    /\ prev.valid => fs[ConfigFile] = prev.fs[ConfigFile]

\* A second run ends with every override given, over a config that an
\* earlier run rendered differently.
C2_Witness ==
    /\ pc = "done" /\ runs = 2
    /\ start.fs[ConfigFile].present /\ start.fs[ConfigFile].data # EditedConfig
    /\ fs[ConfigFile].data # render(args, home_dir(args, env), FullTemplate)

\* C3: stop-before-delete-before-install: the service is no longer running
\* when the existing binary is deleted, no file is at the binary path when the
\* download begins, and the file then holds exactly the received bytes.
C3_StopBeforeDeleteBeforeInstall ==
    /\ Has(h.log, "rm_bin") => ~h.removedWhileRunning
    /\ Has(h.log, "write_bin") => ~h.fileAtCurl
    /\ pc = "chmod" => fs[BinFile] = File(Received(fetched.bin))

\* C4: without systemd the run exits with status 1 at the preflight check and
\* nothing of the host has changed: no supervisor command was started, no
\* directory made, and every file is as it was when the run began.
C4_PreflightFailureMutatesNothing ==
    InRun /\ ~systemd =>
        /\ pc \in {"uses_systemd", "exit1", "crashed"}
        /\ pc = "crashed" => fetched = NoFetch
        /\ fs = start.fs /\ dirs = start.dirs
        /\ h.log = <<>> /\ pending = {}

\* A run has exited at the preflight check on a host that holds files.
C4_Witness ==
    /\ pc = "exit1" /\ ~systemd
    /\ \E p \in Paths : fs[p].present

\* C5: a unit file that exists when a run without --force-service-file begins
\* is byte-identical at every later point of the run: it is neither deleted
\* nor created nor written.
C5_UnitKeptWithoutForce ==
    /\ InRun /\ start.fs[UnitFile].present /\ ~args.force_service_file =>
        /\ fs[UnitFile] = start.fs[UnitFile]
        /\ ~Has(h.log, "rm_unit") /\ ~Has(h.log, "create_unit")
        /\ ~Has(h.log, "flush_unit")
    /\ prev.valid /\ ~args.force_service_file => fs[UnitFile] = prev.fs[UnitFile]

\* A second run without force has ended over a unit file whose content is
\* not what the run would have composed.
C5_Witness ==
    /\ pc = "done" /\ runs = 2 /\ ~args.force_service_file
    /\ fs[UnitFile].present /\ fs[UnitFile].data = SentinelUnit /\ fs[UnitFile].data # Composed

\* C6: with --force-service-file an existing unit file is deleted before the
\* new one is created, and after the unit step the file holds exactly the
\* definition composed from the run's home dir, binary dir and config dir.
C6_ForceRecreateReplaces ==
    /\ args.force_service_file /\ start.fs[UnitFile].present /\ pc \in {"start", "done"} =>
        /\ fs[UnitFile] = File(Composed)
        /\ Has(h.log, "rm_unit") /\ Has(h.log, "create_unit")
        /\ Pos(h.log, "rm_unit") < Pos(h.log, "create_unit")

\* The unit step has ended with force over a sentinel unit file.
C6_Witness ==
    /\ pc = "start" /\ args.force_service_file
    /\ start.fs[UnitFile] = File(SentinelUnit)

\* C7: after a run whose download did not complete, the binary path holds no
\* empty or partially written file.
C7_NoPartialArtifact ==
    pc \in {"done", "crashed"} /\ Failed(fetched.bin) =>
        ~(fs[BinFile].present /\ fs[BinFile].data # NewBinary)

\* Only --connect-as was given on the command line.
OnlyConnectAs(a) ==
    /\ a.root_directory = DefaultRootDirectory /\ a.core_address = None
    /\ a.onboarding_key = None /\ a.connect_as # NodeName

HasAllFour(t) ==
    \A pre \in {RootPrefix, CorePrefix, ConnectPrefix, KeyPrefix} :
        \E i \in 1..Len(t) : startswith(t[i], pre)

\* C8: for a template with all four directive lines, a config rendered with
\* only connect_as supplied differs from the template in exactly the
\* connect_as line, in both install modes.
C8_OverrideIndependence ==
    /\ Has(h.log, "write_cfg") /\ OnlyConnectAs(args) /\ HasAllFour(fetched.template) =>
        /\ Len(fs[ConfigFile].data) = Len(fetched.template)
        /\ \A i \in 1..Len(fetched.template) :
              fs[ConfigFile].data[i] # fetched.template[i]
                  <=> startswith(fetched.template[i], ConnectPrefix)

\* C9: a complete run repeated with the same inputs and the same fetched
\* artifacts ends with every file as the first run left it, and over the two
\* runs the config is written at most once and, without force, the unit is
\* created at most once.
C9_WholeRunIdempotent ==
    pc = "done" /\ prev.valid =>
        /\ \A p \in Paths : fs[p] = prev.fs[p]
        /\ Count(prev.log \o h.log, "write_cfg") <= 1
        /\ ~args.force_service_file => Count(prev.log \o h.log, "create_unit") <= 1

\* A repeated run has ended after a first run that downloaded the binary and
\* wrote both the config and the unit.
C9_Witness ==
    /\ pc = "done" /\ prev.valid /\ fetched.bin = "ok"
    /\ Has(prev.log, "write_cfg") /\ Has(prev.log, "create_unit")

\* C10: when daemon-reload is started the unit file on disk holds the complete
\* composed definition, and the reload has finished when the service start is
\* started.
C10_ReloadAfterCompleteWrite ==
    /\ Has(h.log, "reload") => h.unitAtReload = Composed
    /\ Has(h.log, "start") => ~h.reloadPendingAtStart


\* C11: when systemctl start is invoked, the new binary is fully written at
\* the binary path and already has its executable permission, the chmod no
\* longer pending.
C11_BinaryCompleteBeforeStart ==
    pc = "start" =>
        /\ fs[BinFile] = File(NewBinary)
        /\ BinFile \in xbit
        /\ "chmod" \notin pending

\* The override rules in their priority order: when rule k fires on a line,
\* and what it renders.
RuleFires(k, a, line) ==
    CASE k = 1 -> startswith(line, RootPrefix) /\ (a.root_directory # None \/ a.user)
      [] k = 2 -> startswith(line, CorePrefix) /\ a.core_address # None
      [] k = 3 -> startswith(line, ConnectPrefix)
      [] OTHER -> startswith(line, KeyPrefix) /\ a.onboarding_key # None

RuleOut(k, a, home) ==
    CASE k = 1 -> <<"root_directory", " ", "=", " ",
                    "\"" \o (IF a.root_directory # None THEN a.root_directory
                             ELSE home \o "/komodo") \o "\"">>
      [] k = 2 -> <<"core_address", " ", "=", " ", "\"" \o a.core_address \o "\"">>
      [] k = 3 -> <<"connect_as", " ", "=", " ", "\"" \o a.connect_as \o "\"">>
      [] OTHER -> <<"onboarding_key", " ", "=", " ", "\"" \o a.onboarding_key \o "\"">>

\* C12: the written config has as many lines as the fetched template, in the
\* same order; on every line at most one override rule fires, and the line is
\* that rule's rendering, or the template's line unchanged when none fires.
C12_RenderPreservesShape ==
    fetched.tmpl = "ok" =>
        LET t == fetched.template
            out == fs[ConfigFile].data
        IN  /\ Len(out) = Len(t)
            /\ \A i \in 1..Len(t) :
                  LET F == {k \in 1..4 : RuleFires(k, args, t[i])} IN
                  /\ Cardinality(F) <= 1
                  /\ F = {} => out[i] = t[i]
                  /\ \A k \in F : out[i] = RuleOut(k, args, env.HOME)

\* A template with blank, repeated and near-miss lines has been rendered with
\* every override given.
C12_Witness ==
    /\ fetched.tmpl = "ok" /\ fetched.template = OddTemplate
    /\ args.core_address # None /\ args.onboarding_key # None
    /\ args.root_directory # DefaultRootDirectory

\* C13: a failed systemctl command never ends the run: a run in which one
\* failed halts only when the template fetch failed, never exits with status
\* 1, and when it ends it ends on the success path with the binary, the
\* config and the unit as the run wrote them.
C13_SupervisorFailureNotFatal ==
    h.failed =>
        /\ pc # "exit1"
        /\ pc = "crashed" => fetched.tmpl = "failed"
        /\ pc = "done" =>
            /\ fs[BinFile] = File(Received(fetched.bin))
            /\ fs[ConfigFile].present /\ fs[UnitFile].present
            /\ Has(h.log, "write_cfg") =>
                  fs[ConfigFile] = File(render(args, env.HOME, fetched.template))
            /\ Has(h.log, "create_unit") => fs[UnitFile] = File(Composed)

\* A run in which a systemctl command failed has ended after writing the
\* config and the unit.
C13_Witness ==
    /\ pc = "done" /\ h.failed /\ Has(h.log, "start")
    /\ Has(h.log, "write_cfg") /\ Has(h.log, "create_unit")

\* The machine types whose lower-case form is an ARM64 alias.
ArmMachines ==
    {<<"a", "a", "r", "c", "h", "6", "4">>, <<"a", "r", "m", "6", "4">>,
     <<"A", "R", "M", "6", "4">>}

\* C14: the URL given to curl is <base URL>/<version>/<binary name>, the name
\* being periphery-aarch64 exactly for the ARM64 aliases in any letter case
\* and periphery-x86_64 for every other machine type; the download step never
\* ends the run.
C14_ArchitectureFallback ==
    fetched.bin # "none" =>
        /\ fetched.url = args.binary_url \o "/" \o args.version \o "/" \o
              (IF env.machine \in ArmMachines THEN "periphery-aarch64"
               ELSE "periphery-x86_64")
        /\ pc = "crashed" => fetched.tmpl = "failed"

\* The binary has been fetched on a machine type the installer does not know.
C14_Witness ==
    /\ pc = "chmod" /\ env.machine = <<"r", "i", "s", "c", "v", "6", "4">>
    /\ fetched.url = "https://mirror.example/komodo/v1.19.5/periphery-x86_64"

\* C15: the resolved paths are, in user mode with home H, H/.local/bin,
\* H/.config/komodo and H/.config/systemd/user, and in system mode
\* /usr/local/bin, /etc/komodo and /etc/systemd/system whatever H is.
C15_PathResolution ==
    h.paths # <<>> =>
        /\ Len(h.paths) = 4 /\ h.paths[1] = env.HOME
        /\ ~args.user =>
              SubSeq(h.paths, 2, 4) = <<"/usr/local/bin", "/etc/komodo", "/etc/systemd/system">>
        /\ args.user /\ env.HOME = "/home/a" =>
              SubSeq(h.paths, 2, 4) =
                  <<"/home/a/.local/bin", "/home/a/.config/komodo",
                    "/home/a/.config/systemd/user">>
        /\ args.user /\ env.HOME = "/root" =>
              SubSeq(h.paths, 2, 4) =
                  <<"/root/.local/bin", "/root/.config/komodo", "/root/.config/systemd/user">>
        /\ fs[BinFile].present => BinFile = h.paths[2] \o "/periphery"
        /\ fs[ConfigFile].present => ConfigFile = h.paths[3] \o "/periphery.config.toml"

\* The paths of a user-mode run with home /home/a have been resolved and used.
C15_Witness ==
    /\ h.paths = <<"/home/a", "/home/a/.local/bin", "/home/a/.config/komodo",
                   "/home/a/.config/systemd/user">>
    /\ fs["/home/a/.config/komodo/periphery.config.toml"].present

\* The states of the orchestrator, by position in main().
Stage(p) ==
    CASE p = "idle" -> 0
      [] p = "uses_systemd" -> 1
      [] p = "load_paths" -> 2
      [] p \in {"stop", "makedirs_bin", "remove_bin", "curl", "chmod"} -> 3
      [] p \in {"write_config", "fetch_template"} -> 4
      [] p \in {"write_service_file", "daemon_reload", "close_unit"} -> 5
      [] p = "start" -> 6
      [] OTHER -> 7

Rank(p) ==
    CASE p = "idle" -> 0 [] p = "uses_systemd" -> 1 [] p = "load_paths" -> 2
      [] p = "stop" -> 3 [] p = "makedirs_bin" -> 4 [] p = "remove_bin" -> 5
      [] p = "curl" -> 6 [] p = "chmod" -> 7 [] p = "write_config" -> 8
      [] p = "fetch_template" -> 9 [] p = "write_service_file" -> 10
      [] p = "daemon_reload" -> 11 [] p = "close_unit" -> 12 [] p = "start" -> 13
      [] OTHER -> 14

\* A step of the installer itself (not of its child processes).
ProgramStep ==
    \/ preflight \/ resolve_paths \/ popen_stop \/ makedirs_bin \/ remove_bin
    \/ \E o \in Downloads : curl(o)
    \/ popen_chmod \/ write_config
    \/ \E t \in ServedTemplates, ok \in BOOLEAN : fetch_template(t, ok)
    \/ write_service_file \/ popen_reload \/ close_unit
    \/ \E ok \in BOOLEAN : start_service(ok)

\* C16: a run begins at Preflight (or ends in parse_args); each of its steps
\* stays in its state, enters the next one, or halts the run, never going back
\* and never entering a position twice; the run ends "done" only after
\* ServiceStarted; and a run that has not ended always has a next step, so
\* that it ends after at most 14 steps.
C16_SequentialRun ==
    /\ [][/\ runs' # runs => pc' \in {"uses_systemd", "crashed"}
          /\ runs' = runs /\ pc' # pc =>
                /\ Rank(pc') > Rank(pc)
                /\ \/ Stage(pc') \in {Stage(pc), Stage(pc) + 1}
                   \/ pc' = "exit1" /\ pc = "uses_systemd"
                   \/ pc' = "crashed" /\ pc = "fetch_template"
                /\ pc' = "done" => pc = "start"]_vars
    /\ [](Ended \/ ENABLED ProgramStep)

\* A run has gone through all six states and written config and unit.
C16_Witness ==
    /\ pc = "done" /\ Has(h.log, "write_cfg") /\ Has(h.log, "create_unit")
    /\ Has(h.log, "start")

\* C17: when the template fetch fails the run ends in a traceback (status 1),
\* no config file is at the config path, and the unit step and the service
\* start are not reached.
C17_TemplateFetchFailureHalts ==
    fetched.tmpl = "failed" =>
        /\ pc = "crashed"
        /\ ~fs[ConfigFile].present
        /\ ~Has(h.log, "write_cfg") /\ ~Has(h.log, "create_unit")
        /\ ~Has(h.log, "reload") /\ ~Has(h.log, "start")

\* The template fetch has failed in a second run, after a first run that
\* failed the same way.
C17_Witness ==
    /\ fetched.tmpl = "failed" /\ runs = 2
    /\ ~start.fs[ConfigFile].present /\ isdir(start.dirs, config_dir(args, env))

\* The ExecStart line that names the run's binary path and config path.
ExecStartLine ==
    "ExecStart=/bin/sh -lc \"" \o BinFile \o " --config-path " \o ConfigFile \o "\""

RefersToRunPaths(data) == \E i \in 1..Len(data) : data[i] = ExecStartLine

\* C18 as claimed: when systemctl start is invoked, the binary, the config and
\* the unit file exist and the unit file's ExecStart names exactly the run's
\* binary path and config path.
C18_NotBrokenAtStart ==
    pc = "start" =>
        /\ fs[BinFile].present /\ fs[ConfigFile].present /\ fs[UnitFile].present
        /\ RefersToRunPaths(fs[UnitFile].data)

\* C18 as amended: when systemctl start is invoked, the binary, the config and
\* the unit file exist; the unit file's ExecStart names exactly the run's
\* binary path and config path when this run wrote the unit file, and a unit
\* file kept from before is as it was.
C18_NotBrokenAtStartAmended ==
    pc = "start" =>
        /\ fs[BinFile].present /\ fs[ConfigFile].present /\ fs[UnitFile].present
        /\ Has(h.log, "create_unit") => RefersToRunPaths(fs[UnitFile].data)
        /\ ~Has(h.log, "create_unit") => fs[UnitFile] = start.fs[UnitFile]

\* A user-mode run is about to start the service with the unit it wrote.
C18_Witness ==
    /\ pc = "start" /\ args.user /\ Has(h.log, "create_unit")
    /\ RefersToRunPaths(fs[UnitFile].data)

\* The systemctl commands of a run, in the order they were started.
Calls(log) == SelectSeq(log, LAMBDA ev : ev \in {"stop", "reload", "start"})

\* C19: the systemctl commands of a run are stop, then reload if any, then
\* start, each at most once; daemon-reload is started if and only if the run
\* created the unit file, so a run that keeps the existing unit file starts
\* none.
C19_ReloadIffUnitWritten ==
    /\ Calls(h.log) \in {<<>>, <<"stop">>, <<"stop", "reload">>, <<"stop", "start">>,
                         <<"stop", "reload", "start">>}
    /\ Has(h.log, "reload") => Has(h.log, "create_unit")
    /\ pc \in {"close_unit", "start", "done"} /\ Has(h.log, "create_unit") =>
          Has(h.log, "reload")
    /\ InRun /\ start.fs[UnitFile].present /\ ~args.force_service_file =>
          ~Has(h.log, "reload")

\* A run that kept the existing unit file has ended with stop and start only.
C19_Witness ==
    /\ pc = "done" /\ start.fs[UnitFile].present
    /\ Calls(h.log) = <<"stop", "start">>

\* C20: a user-mode run without --root-directory renders the root_directory
\* line of a new config as root_directory = "<home>/komodo".
C20_UserModeRootDirectory ==
    /\ Has(h.log, "write_cfg") /\ args.user /\ args.root_directory = DefaultRootDirectory =>
          \A i \in 1..Len(fetched.template) :
              startswith(fetched.template[i], RootPrefix) =>
                  fs[ConfigFile].data[i] =
                      <<"root_directory", " ", "=", " ", "\"" \o env.HOME \o "/komodo\"">>

====
